---------------------------- MODULE Spec2Model ----------------------------
(***************************************************************************)
(* Turbine model (NewTurbine, SetNominalFlowRate, FinalRPM,                *)
(* SetEnergyForRPM, Tick) and the brute-force search findOptimalTurbine.   *)
(*                                                                         *)
(* float64 values are modelled as binary floating-point numbers <<m, e>>   *)
(* (value m * 2^e) with a 28-bit mantissa, normalised after every          *)
(* operation; products and quotients are computed on 14-bit limbs so that  *)
(* every intermediate value fits a 32-bit integer.  int32/int64 values are *)
(* integers; the geometries enumerated are far below the widths at which   *)
(* int64 arithmetic would wrap.                                            *)
(***************************************************************************)
EXTENDS Integers, Sequences, FiniteSets, TLC

(***************************************************************************)
(* Floating point                                                          *)
(***************************************************************************)
Radix == 2^28
Limb == 2^14

Abs(x) == IF x < 0 THEN -x ELSE x
Sgn(x) == IF x < 0 THEN -1 ELSE 1
IMax(a, b) == IF a > b THEN a ELSE b
IMin(a, b) == IF a < b THEN a ELSE b

RECURSIVE BitLen(_)
BitLen(n) == IF n = 0 THEN 0 ELSE 1 + BitLen(n \div 2)

\* m * 2^e with the mantissa brought to 28 bits (round half away from zero)
Norm(m, e) ==
    IF m = 0 THEN <<0, 0>>
    ELSE LET a == Abs(m)
             bl == BitLen(a)
         IN IF bl <= 28
            THEN <<m * 2^(28 - bl), e - (28 - bl)>>
            ELSE LET s == bl - 28
                     r == ((a \div 2^(s - 1)) + 1) \div 2
                 IN IF r = Radix THEN <<Sgn(m) * (Radix \div 2), e + s + 1>>
                                 ELSE <<Sgn(m) * r, e + s>>

FZero == <<0, 0>>
FromInt(n) == Norm(n, 0)
FNeg(x) == <<-x[1], x[2]>>

\* n / 2^s rounded to nearest
ShiftRight(n, s) == IF s = 0 THEN n
                    ELSE IF s > 30 THEN 0
                    ELSE Sgn(n) * (((Abs(n) \div 2^(s - 1)) + 1) \div 2)

FAdd(x, y) ==
    IF x[1] = 0 THEN y
    ELSE IF y[1] = 0 THEN x
    ELSE LET hi == IF x[2] >= y[2] THEN x ELSE y
             lo == IF x[2] >= y[2] THEN y ELSE x
             d == hi[2] - lo[2]
             g == IMin(d, 2)
         IN Norm(hi[1] * 2^g + ShiftRight(lo[1], d - g), hi[2] - g)

FSub(x, y) == FAdd(x, FNeg(y))

FMul(x, y) ==
    IF x[1] = 0 \/ y[1] = 0 THEN FZero
    ELSE LET a == Abs(x[1])
             b == Abs(y[1])
             ha == a \div Limb
             la == a % Limb
             hb == b \div Limb
             lb == b % Limb
             mid == ha * lb + la * hb + ((la * lb) \div Limb)
             top == ha * hb + (mid \div Limb)
             rest == mid % Limb
             sg == Sgn(x[1]) * Sgn(y[1])
         IN IF top >= Radix \div 2
            THEN Norm(sg * (top + (IF rest >= Limb \div 2 THEN 1 ELSE 0)),
                      x[2] + y[2] + 28)
            ELSE Norm(sg * (2 * top + (IF rest >= Limb \div 2 THEN 1 ELSE 0)),
                      x[2] + y[2] + 27)

\* the quotient digits of rem/d in radix 4, k digits still to produce
RECURSIVE DivDigits(_, _, _, _)
DivDigits(rem, d, k, acc) ==
    IF k = 0 THEN acc
    ELSE DivDigits((rem * 4) % d, d, k - 1, acc * 4 + ((rem * 4) \div d))

\* y # 0
FDiv(x, y) ==
    IF x[1] = 0 THEN FZero
    ELSE LET a == Abs(x[1])
             d == Abs(y[1])
             q == DivDigits(a % d, d, 14, a \div d)
         IN Norm(Sgn(x[1]) * Sgn(y[1]) * q, x[2] - y[2] - 28)

\* the decimal literal n/d
Lit(n, d) == FDiv(FromInt(n), FromInt(d))

FLt(x, y) == FSub(x, y)[1] < 0
FGt(x, y) == FLt(y, x)
FMax(x, y) == IF FLt(x, y) THEN y ELSE x

\* largest r in lo..hi with r * r <= n
RECURSIVE ISqrtIn(_, _, _)
ISqrtIn(n, lo, hi) ==
    IF lo >= hi THEN lo
    ELSE LET mid == (lo + hi + 1) \div 2
         IN IF mid * mid <= n THEN ISqrtIn(n, mid, hi) ELSE ISqrtIn(n, lo, mid - 1)

\* one Newton step towards sqrt(x): (r + x/r) / 2
NewtonStep(x, r) == FDiv(FAdd(r, FDiv(x, r)), FromInt(2))

\* the integer square root of the mantissa, as a first approximation of sqrt(x)
SqrtSeed(x) ==
    IF x[2] % 2 = 0 THEN Norm(ISqrtIn(x[1] * 4, 0, 46340), (x[2] - 2) \div 2)
                    ELSE Norm(ISqrtIn(x[1] * 2, 0, 46340), (x[2] - 1) \div 2)

\* math.Sqrt, x >= 0
FSqrt(x) == IF x[1] = 0 THEN FZero ELSE NewtonStep(x, NewtonStep(x, SqrtSeed(x)))

\* int64(x): truncation toward zero
Trunc(x) ==
    IF x[2] >= 0 THEN x[1] * 2^(x[2])
    ELSE IF -x[2] > 30 THEN 0
    ELSE Sgn(x[1]) * (Abs(x[1]) \div 2^(-x[2]))

Pi == Lit(355, 113)
Ln2 == Lit(693147, 1000000)

\* binary logarithm of y/2^14 in [1, 2), k fraction bits still to produce
RECURSIVE Log2Frac(_, _, _)
Log2Frac(y, k, acc) ==
    IF k = 0 THEN acc
    ELSE LET y2 == (y * y) \div Limb
         IN IF y2 >= 2 * Limb THEN Log2Frac(y2 \div 2, k - 1, 2 * acc + 1)
                              ELSE Log2Frac(y2, k - 1, 2 * acc)

\* math.Log, x > 0, from the leading 15 bits of the mantissa
FLog(x) == FMul(Norm((x[2] + 27) * Limb + Log2Frac(x[1] \div (Limb \div 2), 14, 0), -14), Ln2)

\* 1 - q/d * rest
CosTerm(q, d, rest) == FSub(FromInt(1), FMul(FDiv(q, FromInt(d)), rest))

\* cosine of r in [0, Pi/2], q = r * r: the Taylor series to r^10
CosSeries(q) ==
    CosTerm(q, 2, CosTerm(q, 12, CosTerm(q, 30, CosTerm(q, 56, CosTerm(q, 90, FromInt(1))))))

\* cosine of r in [0, 2 Pi)
CosReduced(r) ==
    IF FGt(r, FMul(Lit(3, 2), Pi)) THEN CosSeries(FMul(FSub(FMul(FromInt(2), Pi), r),
                                                       FSub(FMul(FromInt(2), Pi), r)))
    ELSE IF FGt(r, FDiv(Pi, FromInt(2))) THEN FNeg(CosSeries(FMul(FSub(Pi, r), FSub(Pi, r))))
    ELSE CosSeries(FMul(r, r))

\* a - k * 2 Pi, for a >= 0 and k = int(a / 2 Pi)
CosRange(a, k) == FMax(FZero, FSub(a, FMul(FromInt(k), FMul(FromInt(2), Pi))))

\* math.Cos
FCos(x) == CosReduced(CosRange(<<Abs(x[1]), x[2]>>,
                               Trunc(FDiv(<<Abs(x[1]), x[2]>>, FMul(FromInt(2), Pi)))))

(***************************************************************************)
(* Turbine                                                                 *)
(***************************************************************************)
MaxInt32 == 2147483647
MinInt32 == -2147483647 - 1

\* a - b in int32, b > 0
Sub32(a, b) == IF a >= MinInt32 + b THEN a - b
               ELSE (a - MinInt32) + (MaxInt32 - b) + 1

\* Go's a % b, b > 0: the sign follows the dividend
GoRem(a, b) == IF a >= 0 \/ a % b = 0 THEN a % b ELSE (a % b) - b

FlowRatePerBlock == 5000
LatentHeat == FromInt(4)
TurbineMultiplier == Lit(5, 2)
FluidPerBladeLinerKilometre == FromInt(20)
RotorAxialMassPerShaft == FromInt(100)
RotorAxialMassPerBlade == FromInt(100)
CoilDragMultiplier == FromInt(10)
BatterySizePerCoilBlock == FromInt(300000)
TankVolumePerBlock == FromInt(10000)
EffectiveGridFrequency == FromInt(30)
FrictionDragMultiplier == Lit(5, 10000)
AerodynamicDragMultiplier == Lit(5, 10000)

log2 == FLog(FromInt(2))
logPeakRPM == FLog(FMul(EffectiveGridFrequency, FromInt(60)))
\* math.Pow(2, EfficiencyPeaks-0.5) with EfficiencyPeaks = 2: 2^(3/2)
MinEfficiencyScale == FSqrt(FromInt(2 * 2 * 2))

Size(x, y, z) == [x |-> x, y |-> y, z |-> z]
Vec4(w, x, y, z) == [w |-> w, x |-> x, y |-> y, z |-> z]
CoilData(efficiency, bonus, extractionRate) ==
    [efficiency |-> efficiency, bonus |-> bonus, extractionRate |-> extractionRate]

\* Turbine{}: the zero value
ZeroTurbine ==
    [size |-> Size(0, 0, 0), active |-> FALSE, coilSize |-> 0,
     inductionEfficiency |-> FZero, inductorDragCoefficient |-> FZero,
     inductionEnergyExponentBonus |-> FZero, rotorCapacityPerRPM |-> FZero,
     maxFlowRate |-> 0, maxMaxFlowRate |-> 0, rotorShafts |-> 0,
     rotorAxialMass |-> FZero, rotorMass |-> FZero,
     linearBladeMetersPerRevolution |-> FZero, coilEngaged |-> FALSE,
     rotorEnergy |-> FZero, fluidTankCapacity |-> FZero, batteryCapacity |-> FZero,
     energyGeneratedLastTick |-> FZero, rotorEfficiencyLastTick |-> FZero,
     inductorDragLastTick |-> FZero, frictionDragLastTick |-> FZero,
     aeroDragLastTick |-> FZero, coilEfficiencyLastTick |-> FZero]

Reset(turbine) == [turbine EXCEPT !.rotorEnergy = FZero]

Resize(turbine, dim) ==
    [turbine EXCEPT !.size = dim, !.coilSize = 0,
                    !.inductionEfficiency = FZero,
                    !.inductorDragCoefficient = FZero,
                    !.inductionEnergyExponentBonus = FZero,
                    !.maxMaxFlowRate = (dim.x * dim.z - 1) * FlowRatePerBlock]

\* SetNominalFlowRate without the floor at 0
SetNominalFlowRateNoFloor(turbine, flowRate) ==
    [turbine EXCEPT !.maxFlowRate = IMin(turbine.maxMaxFlowRate, flowRate)]

SetNominalFlowRate(turbine, flowRate) ==
    [turbine EXCEPT !.maxFlowRate = IMin(turbine.maxMaxFlowRate, IMax(0, flowRate))]

sumRangeFromZero(x) == ((x + 1) * x) \div 2

\* the loop over the blade levels i..Len(rotorConfiguration)
RECURSIVE RotorLevels(_, _, _)
RotorLevels(turbine, rotorConfiguration, i) ==
    IF i > Len(rotorConfiguration) THEN turbine
    ELSE LET bladeLevel == rotorConfiguration[i]
             l1 == FAdd(turbine.linearBladeMetersPerRevolution, FromInt(sumRangeFromZero(bladeLevel.w)))
             l2 == FAdd(l1, FromInt(sumRangeFromZero(bladeLevel.x)))
             l3 == FAdd(l2, FromInt(sumRangeFromZero(bladeLevel.y)))
             l4 == FAdd(l3, FromInt(sumRangeFromZero(bladeLevel.z)))
             m == FAdd(turbine.rotorMass,
                       FromInt(bladeLevel.w + bladeLevel.x + bladeLevel.y + bladeLevel.z))
         IN RotorLevels([turbine EXCEPT !.linearBladeMetersPerRevolution = l4,
                                        !.rotorMass = m],
                        rotorConfiguration, i + 1)

\* the part of SetRotorConfiguration after its loop; blades is
\* linearBladeMetersPerRevolution and shafts is len(rotorConfiguration)
RotorTotals(turbine, blades, shafts) ==
    [turbine EXCEPT
       !.rotorCapacityPerRPM =
           FMul(FDiv(FMul(blades, FluidPerBladeLinerKilometre), FromInt(1000)),
                FMul(FromInt(2), Pi)),
       !.rotorShafts = shafts,
       !.rotorAxialMass = FAdd(FMul(FromInt(shafts), RotorAxialMassPerShaft),
                               FMul(blades, RotorAxialMassPerBlade)),
       !.rotorMass = FAdd(FMul(@, RotorAxialMassPerBlade),
                          FMul(FromInt(shafts), RotorAxialMassPerShaft))]

\* if turbine.maxFlowRate == -1 { SetNominalFlowRate(int64(rotorCapacityPerRPM * 1800)) }
DefaultFlowRate(turbine) ==
    IF turbine.maxFlowRate = -1
    THEN SetNominalFlowRate(turbine, Trunc(FMul(turbine.rotorCapacityPerRPM, FromInt(1800))))
    ELSE turbine

\* the rotor shafts counted for a rotor configuration
\* a shaft count that leaves out the empty levels
BladedLevelCount(rotorConfiguration) ==
    Cardinality({i \in 1 .. Len(rotorConfiguration) :
                    rotorConfiguration[i] # Vec4(0, 0, 0, 0)})

ShaftCount(rotorConfiguration) == Len(rotorConfiguration)

RotorSums(turbine, rotorConfiguration) ==
    RotorTotals(turbine, turbine.linearBladeMetersPerRevolution,
                ShaftCount(rotorConfiguration))

SetRotorConfiguration(turbine, rotorConfiguration) ==
    DefaultFlowRate(
        RotorSums(RotorLevels([turbine EXCEPT !.rotorMass = FZero,
                                              !.linearBladeMetersPerRevolution = FZero],
                              rotorConfiguration, 1),
                  rotorConfiguration))

\* the loop over the rings i..size.x/2 - 1
RECURSIVE FullCoilRings(_, _, _, _)
FullCoilRings(turbine, layerNumber, coilData, i) ==
    IF i >= turbine.size.x \div 2 THEN turbine
    ELSE LET coilsOnLayer == FMul(FromInt((i + 1) * 2 * 4), FromInt(layerNumber))
         IN FullCoilRings(
              [turbine EXCEPT
                 !.coilSize = @ + Trunc(coilsOnLayer),
                 !.inductionEfficiency = FAdd(@, FMul(coilData.efficiency, coilsOnLayer)),
                 !.inductionEnergyExponentBonus = FAdd(@, FMul(coilData.bonus, coilsOnLayer)),
                 !.inductorDragCoefficient =
                     FAdd(@, FMul(FMul(coilData.extractionRate, coilsOnLayer),
                                  FDiv(FromInt(2), FAdd(FromInt(i), FromInt(2)))))],
              layerNumber, coilData, i + 1)

SetFullCoil(turbine, layerNumber, coilData) == FullCoilRings(turbine, layerNumber, coilData, 0)

UpdateInternalValues(turbine) ==
    [turbine EXCEPT
       !.batteryCapacity = FMul(FromInt(turbine.coilSize + 1), BatterySizePerCoilBlock),
       !.inductionEfficiency =
           IF turbine.coilSize <= 0 THEN FZero ELSE FDiv(@, FromInt(turbine.coilSize)),
       !.inductionEnergyExponentBonus =
           IF turbine.coilSize <= 0 THEN FZero ELSE FDiv(@, FromInt(turbine.coilSize)),
       !.inductorDragCoefficient =
           IF turbine.coilSize <= 0 THEN FZero
           ELSE FDiv(FMul(@, CoilDragMultiplier), FromInt(turbine.coilSize)),
       !.fluidTankCapacity =
           FMul(FSub(FMul(FMul(FromInt(turbine.size.x), FromInt(turbine.size.y)),
                          FromInt(turbine.size.z)),
                     FAdd(FromInt(turbine.rotorShafts), FromInt(turbine.coilSize))),
                TankVolumePerBlock)]

\* the rotors slice NewTurbine builds: bladed levels, then one empty level per coil layer
Rotors(turbineDimensions, coilLayers) ==
    LET bladeLength == turbineDimensions.x \div 2
    IN [i \in 1..IMax(0, turbineDimensions.y - coilLayers) |->
           Vec4(bladeLength, bladeLength, bladeLength, bladeLength)]
       \o [i \in 1..IMax(0, coilLayers) |-> Vec4(0, 0, 0, 0)]

\* NewTurbine past its checks, for the internal dimensions
Build(turbineDimensions, coilLayers, coilType) ==
    SetNominalFlowRate(
        [UpdateInternalValues(
            SetRotorConfiguration(
                SetFullCoil(Resize(Reset(ZeroTurbine), turbineDimensions),
                            coilLayers, coilType),
                Rotors(turbineDimensions, coilLayers)))
         EXCEPT !.active = TRUE, !.coilEngaged = TRUE],
        0)

\* NewTurbine with its coil-layer limit off by one
NewTurbineOffByOne(height, width, coilLayers, coilType) ==
    IF GoRem(width, 2) = 0
    THEN [turbine |-> ZeroTurbine, err |-> "Turbine width must be odd"]
    ELSE IF coilLayers > Sub32(height, 2)
    THEN [turbine |-> ZeroTurbine, err |-> "Turbine cannot hold that many coil layers"]
    ELSE IF height < 4 \/ width < 5
    THEN [turbine |-> ZeroTurbine, err |-> "Turbine cannot be this small"]
    ELSE IF coilLayers < 1
    THEN [turbine |-> ZeroTurbine, err |-> "Turbine needs at least one coil layer"]
    ELSE [turbine |-> Build(Size(width - 2, height - 2, width - 2), coilLayers, coilType),
          err |-> "nil"]

NewTurbine(height, width, coilLayers, coilType) ==
    IF GoRem(width, 2) = 0
    THEN [turbine |-> ZeroTurbine, err |-> "Turbine width must be odd"]
    ELSE IF coilLayers > Sub32(height, 3)
    THEN [turbine |-> ZeroTurbine, err |-> "Turbine cannot hold that many coil layers"]
    ELSE IF height < 4 \/ width < 5
    THEN [turbine |-> ZeroTurbine, err |-> "Turbine cannot be this small"]
    ELSE IF coilLayers < 1
    THEN [turbine |-> ZeroTurbine, err |-> "Turbine needs at least one coil layer"]
    ELSE [turbine |-> Build(Size(width - 2, height - 2, width - 2), coilLayers, coilType),
          err |-> "nil"]

RPM(turbine) == FDiv(turbine.rotorEnergy, turbine.rotorAxialMass)

\* r *= f * p; ret += r   on st = <<ret, r>>
PowTerm(st, f, p) == <<FAdd(st[1], FMul(st[2], FMul(f, p))), FMul(st[2], FMul(f, p))>>

\* the four terms added to x, p = (y - 1) * math.Log(x)
PowSeries(x, p) ==
    PowTerm(PowTerm(PowTerm(PowTerm(<<x, x>>, FromInt(1), p), Lit(1, 2), p),
                    Lit(33333, 100000), p),
            Lit(1, 4), p)[1]

fasterPow(x, y) ==
    IF x[1] = 0 \/ y = FromInt(1) THEN x
    ELSE PowSeries(x, FMul(FSub(y, FromInt(1)), FLog(x)))

\* the coil efficiency curve inside Tick
CoilEfficiency(rpm) ==
    LET frequency == EffectiveGridFrequency
        peakRPM == FMul(frequency, FromInt(60))
        minRPM == FDiv(peakRPM, MinEfficiencyScale)
    IN IF FLt(rpm, minRPM) THEN Lit(1, 2)
       ELSE IF FGt(rpm, peakRPM)
       THEN LET numerator == FNeg(FMul(FSub(rpm, peakRPM), FSub(rpm, peakRPM)))
                denominator == FMul(FMul(FromInt(8), frequency), peakRPM)
                possibleEfficiency == FDiv(numerator, denominator)
            IN FMax(FZero, FAdd(possibleEfficiency, FromInt(1)))
       ELSE LET logValue == FAdd(FMul(FromInt(-2), FDiv(FSub(FLog(rpm), logPeakRPM), log2)),
                                 FromInt(1))
            IN FAdd(FMul(Lit(-1, 4), FCos(FMul(logValue, Pi))), Lit(3, 4))

\* rotorEfficiencyLastTick and rotorEnergy for an effective flow rate
FlowEffect(turbine, flowRate, effectiveFlowRate) ==
    [turbine EXCEPT
       !.rotorEfficiencyLastTick =
           IF flowRate[1] # 0 THEN FDiv(effectiveFlowRate, flowRate) ELSE FZero,
       !.rotorEnergy =
           IF FGt(effectiveFlowRate, FZero)
           THEN FAdd(@, FMul(FMul(effectiveFlowRate, LatentHeat), TurbineMultiplier))
           ELSE @]

\* effectiveFlowRate for a flow rate and a rotor capacity
EffectiveFlowRate(flowRate, rotorCapacity) ==
    IF FGt(flowRate, rotorCapacity)
    THEN FAdd(rotorCapacity,
              FMul(FSub(flowRate, rotorCapacity), FDiv(rotorCapacity, flowRate)))
    ELSE flowRate

\* the flow part of Tick
TickFlow(turbine, rpm) ==
    IF turbine.active
    THEN FlowEffect(turbine, FromInt(turbine.maxFlowRate),
                    EffectiveFlowRate(FromInt(turbine.maxFlowRate),
                                      FMul(turbine.rotorCapacityPerRPM,
                                           FMax(FromInt(100), rpm))))
    ELSE [turbine EXCEPT !.rotorEfficiencyLastTick = FZero]

\* the fields the coil part of Tick sets
CoilEffect(turbine, inductionTorque, efficiency) ==
    [turbine EXCEPT
       !.coilEfficiencyLastTick = efficiency,
       !.energyGeneratedLastTick =
           FMul(FMul(fasterPow(inductionTorque, turbine.inductionEnergyExponentBonus),
                     turbine.inductionEfficiency),
                efficiency),
       !.inductorDragLastTick = inductionTorque,
       !.rotorEnergy = FSub(@, inductionTorque)]

\* the coil part of Tick
TickCoil(turbine, rpm) ==
    IF turbine.coilEngaged
    THEN CoilEffect(turbine,
                    FMul(FMul(rpm, turbine.inductorDragCoefficient),
                         FromInt(turbine.coilSize)),
                    CoilEfficiency(rpm))
    ELSE [turbine EXCEPT !.inductorDragLastTick = FZero,
                         !.energyGeneratedLastTick = FZero]

\* if turbine.rotorEnergy < 0 { turbine.rotorEnergy = 0 }
ClampEnergy(energy) == IF FLt(energy, FZero) THEN FZero ELSE energy

\* the fields the drag part of Tick sets
DragEffect(turbine, friction, aero) ==
    [turbine EXCEPT !.frictionDragLastTick = friction,
                    !.aeroDragLastTick = aero,
                    !.rotorEnergy = ClampEnergy(FSub(FSub(@, friction), aero))]

\* the friction and aerodynamic drag of Tick, and the clamp of rotorEnergy
TickDrag(turbine, rpm) ==
    DragEffect(turbine,
               FMul(FMul(turbine.rotorMass, FMul(rpm, FrictionDragMultiplier)),
                    FMul(rpm, FrictionDragMultiplier)),
               FMul(FMul(turbine.linearBladeMetersPerRevolution,
                         FMul(rpm, AerodynamicDragMultiplier)),
                    FMul(rpm, AerodynamicDragMultiplier)))

\* Tick, rpm being turbine.RPM() at its start
TickAt(turbine, rpm) == TickDrag(TickCoil(TickFlow(turbine, rpm), rpm), rpm)

Tick(turbine) == TickAt(turbine, RPM(turbine))

\* the positive root (-b + sqrt(b*b - 4*a*c)) / (2*a)
PositiveRoot(a, b, c) ==
    FDiv(FAdd(FNeg(b), FSqrt(FSub(FMul(b, b), FMul(FMul(FromInt(4), a), c)))),
         FMul(FromInt(2), a))

\* the third path: a and b with the capacity term folded in, c = 0
CapacityLimited(turbine, flowRate, RFPerHeat, a, b) ==
    FDiv(FNeg(FAdd(b, FMul(FMul(FromInt(-2), turbine.rotorCapacityPerRPM), RFPerHeat))),
         FAdd(a, FMul(FDiv(FMul(turbine.rotorCapacityPerRPM, turbine.rotorCapacityPerRPM),
                           flowRate),
                      RFPerHeat)))

\* the second path, for its root predictedRPM
Unrestricted(turbine, flowRate, RFPerHeat, a, b, predictedRPM) ==
    IF FLt(flowRate, FMul(turbine.rotorCapacityPerRPM, predictedRPM))
    THEN <<predictedRPM, 2>>
    ELSE <<CapacityLimited(turbine, flowRate, RFPerHeat, a, b), 3>>

\* the first path, for its root predictedRPM
LowSpeed(turbine, flowRate, RFPerHeat, a, b, predictedRPM) ==
    IF FLt(predictedRPM, FromInt(100)) THEN <<predictedRPM, 1>>
    ELSE Unrestricted(turbine, flowRate, RFPerHeat, a, b,
                      PositiveRoot(a, b, FMul(FNeg(flowRate), RFPerHeat)))

\* the low-speed flow rate without the loss on the excess flow
LowSpeedFlowRateNoExcess(flowRate, rotorCapacity) == flowRate

\* effectiveFlowRate under the assumption rpm < 100
LowSpeedFlowRate(flowRate, rotorCapacity) ==
    IF FGt(flowRate, rotorCapacity)
    THEN FSub(FAdd(rotorCapacity, rotorCapacity),
              FDiv(FMul(rotorCapacity, rotorCapacity), flowRate))
    ELSE flowRate

FinalRPMFrom(turbine, flowRate, RFPerHeat, a, b) ==
    LowSpeed(turbine, flowRate, RFPerHeat, a, b,
             PositiveRoot(a, b,
                          FMul(FNeg(LowSpeedFlowRate(flowRate,
                                                     FMul(turbine.rotorCapacityPerRPM,
                                                          FromInt(100)))),
                               RFPerHeat)))

\* FinalRPM with the branch taken: <<rpm, 1 | 2 | 3>>
FinalRPMBranch(turbine) ==
    FinalRPMFrom(turbine, FromInt(turbine.maxFlowRate), FMul(LatentHeat, TurbineMultiplier),
                 FAdd(FMul(FMul(turbine.rotorMass, FrictionDragMultiplier),
                           FrictionDragMultiplier),
                      FMul(FMul(turbine.linearBladeMetersPerRevolution,
                                AerodynamicDragMultiplier),
                           AerodynamicDragMultiplier)),
                 FMul(turbine.inductorDragCoefficient, FromInt(turbine.coilSize)))

FinalRPM(turbine) == FinalRPMBranch(turbine)[1]

\* SetEnergyForRPM adding to the energy the rotor already holds
SetEnergyForRPMAdding(turbine, rpm) ==
    [turbine EXCEPT !.rotorEnergy = FAdd(@, FMul(turbine.rotorAxialMass, rpm))]

SetEnergyForRPM(turbine, rpm) ==
    [turbine EXCEPT !.rotorEnergy = FMul(turbine.rotorAxialMass, rpm)]

(***************************************************************************)
(* findOptimalTurbine                                                      *)
(***************************************************************************)
minHeight == 4
minWidth == 5

UseMaxFlow == 0
FindBestFlow == 1
UseSetFlow == 2
FindBestUnderFlow == 3

FlowSetting(variant, value) == [variant |-> variant, value |-> value]

\* math.Inf(-1): below every finite value
NegInf == <<-(Radix \div 2), 10000>>

\* coilTypes[name]; a name the map does not hold gives the zero CoilData
coilTypes(name) ==
    CASE name = "Iron" -> CoilData(Lit(33, 100), FromInt(1), Lit(1, 10))
      [] name = "Vibranium" -> CoilData(Lit(135, 100), Lit(104, 100), Lit(5, 10))
      [] OTHER -> CoilData(FZero, FZero, FZero)

\* the fitness functions a caller passes; "energyGenerated" is optimizerWrapper's
Fitness(name, turbine) ==
    CASE name = "energyGenerated" -> turbine.energyGeneratedLastTick
      [] name = "rotorEfficiency" -> turbine.rotorEfficiencyLastTick
      [] name = "constant" -> FromInt(1)
      [] OTHER -> NegInf

\* the constraint functions a caller passes; "always" is optimizerWrapper's
Constraint(name, turbine) ==
    CASE name = "always" -> TRUE
      [] name = "tall" -> turbine.size.y >= 3
      [] OTHER -> FALSE

\* the longest flowRates slice memory holds
MaxFlowRates == 8

MaxSizes == {Size(5, 3, 5), Size(4, 4, 4), Size(5, 4, 5), Size(7, 5, 7)}
CoilNames == {"Iron", "Vibranium", "Unknown"}
FitnessNames == {"energyGenerated", "rotorEfficiency", "constant", "negInf"}
ConstraintNames == {"always", "tall", "never"}
FlowSettings ==
    {FlowSetting(UseMaxFlow, 0),
     FlowSetting(FindBestFlow, 0), FlowSetting(FindBestFlow, -5000),
     FlowSetting(FindBestFlow, 15000), FlowSetting(FindBestFlow, 40001),
     FlowSetting(FindBestFlow, 120001),
     FlowSetting(UseSetFlow, -5), FlowSetting(UseSetFlow, 12345),
     FlowSetting(UseSetFlow, 1000000),
     FlowSetting(FindBestUnderFlow, 150), FlowSetting(FindBestUnderFlow, 129900),
     FlowSetting(FindBestUnderFlow, -5),
     FlowSetting(4, 0)}

VARIABLES
    fitnessFunction, constraintsFunction, coilType, flowSetting, maxSize,
    pc, height, width, coilLayers, turbine, flowRates, flowRate, idx,
    bestTurbine, bestFitness, err, calculatedRPM,
    evals

vars == <<fitnessFunction, constraintsFunction, coilType, flowSetting, maxSize,
          pc, height, width, coilLayers, turbine, flowRates, flowRate, idx,
          bestTurbine, bestFitness, err, calculatedRPM, evals>>

args == <<fitnessFunction, constraintsFunction, coilType, flowSetting, maxSize>>

Init ==
    /\ fitnessFunction \in FitnessNames
    /\ constraintsFunction \in ConstraintNames
    /\ coilType \in CoilNames
    /\ flowSetting \in FlowSettings
    /\ maxSize \in MaxSizes
    /\ pc = "forHeight"
    /\ height = minHeight
    /\ width = minWidth
    /\ coilLayers = 1
    /\ turbine = ZeroTurbine
    /\ flowRates = <<>>
    /\ flowRate = 0
    /\ idx = 1
    /\ bestTurbine = ZeroTurbine
    /\ bestFitness = NegInf
    /\ err = "nil"
    /\ calculatedRPM = FZero
    /\ evals = <<>>

\* for height := minHeight; height <= int(maxSize.y); height++ ; return bestTurbine
ForHeight ==
    /\ pc = "forHeight"
    /\ IF height <= maxSize.y
       THEN width' = minWidth /\ pc' = "forWidth"
       ELSE width' = width /\ pc' = "done"
    /\ UNCHANGED <<args, height, coilLayers, turbine, flowRates, flowRate, idx,
                   bestTurbine, bestFitness, err, calculatedRPM, evals>>

\* for width := minWidth; width <= int(maxSize.x); width += 2
ForWidth ==
    /\ pc = "forWidth"
    /\ IF width <= maxSize.x
       THEN coilLayers' = 1 /\ height' = height /\ pc' = "forCoilLayers"
       ELSE coilLayers' = coilLayers /\ height' = height + 1 /\ pc' = "forHeight"
    /\ UNCHANGED <<args, width, turbine, flowRates, flowRate, idx,
                   bestTurbine, bestFitness, err, calculatedRPM, evals>>

\* for coilLayers := 1; coilLayers <= height-3; coilLayers++
ForCoilLayers ==
    /\ pc = "forCoilLayers"
    /\ IF coilLayers <= height - 3
       THEN width' = width /\ pc' = "body"
       ELSE width' = width + 2 /\ pc' = "forWidth"
    /\ UNCHANGED <<args, height, coilLayers, turbine, flowRates, flowRate, idx,
                   bestTurbine, bestFitness, err, calculatedRPM, evals>>

\* a constraint check that lets every model through
PassesAlways(name, t) == TRUE

\* the constraint check of the loop body
PassesConstraint(name, t) == Constraint(name, t)

\* the switch on flowSetting.variant
FlowSwitch(t) ==
    /\ coilLayers' = coilLayers
    /\ idx' = 1
    /\ CASE flowSetting.variant = UseMaxFlow ->
              /\ flowRates' = <<t.maxMaxFlowRate>>
              /\ flowRate' = flowRate
              /\ pc' = "forFlowRates"
         [] flowSetting.variant = FindBestFlow ->
              /\ flowRates' = <<>>
              /\ flowRate' = flowSetting.value
              /\ pc' = "findBestFlow"
         [] flowSetting.variant = UseSetFlow ->
              /\ flowRates' = <<flowSetting.value>>
              /\ flowRate' = flowRate
              /\ pc' = "forFlowRates"
         [] flowSetting.variant = FindBestUnderFlow ->
              /\ flowRates' = <<>>
              /\ flowRate' = IMax(0, flowSetting.value - 10000)
              /\ pc' = "findBestUnderFlow"
         [] OTHER ->
              /\ flowRates' = <<>>
              /\ flowRate' = flowRate
              /\ pc' = "panic"

\* the loop body after turbine, err := NewTurbine(...), up to the switch
BodyWith(new) ==
    /\ turbine' = new.turbine
    /\ err' = new.err
    /\ IF new.err # "nil" \/ ~PassesConstraint(constraintsFunction, new.turbine)
       THEN \* continue
            /\ coilLayers' = coilLayers + 1
            /\ pc' = "forCoilLayers"
            /\ UNCHANGED <<flowRates, flowRate, idx>>
       ELSE FlowSwitch(new.turbine)

Body ==
    /\ pc = "body"
    /\ BodyWith(NewTurbine(height, width, coilLayers, coilTypes(coilType)))
    /\ UNCHANGED <<args, height, width, bestTurbine, bestFitness, calculatedRPM, evals>>

\* the same loop with flowRate < limit as its condition
AppendWhileBelow(limit, step) ==
    IF flowRate < limit
    THEN IF Len(flowRates) >= MaxFlowRates
         THEN pc' = "outOfMemory" /\ UNCHANGED <<flowRates, flowRate>>
         ELSE /\ flowRates' = Append(flowRates, flowRate)
              /\ flowRate' = flowRate + step
              /\ pc' = pc
    ELSE pc' = "forFlowRates" /\ UNCHANGED <<flowRates, flowRate>>

\* one round of a loop that appends flowRate while flowRate <= limit;
\* an append the memory cannot hold ends the program
AppendWhile(limit, step) ==
    IF flowRate <= limit
    THEN IF Len(flowRates) >= MaxFlowRates
         THEN pc' = "outOfMemory" /\ UNCHANGED <<flowRates, flowRate>>
         ELSE /\ flowRates' = Append(flowRates, flowRate)
              /\ flowRate' = flowRate + step
              /\ pc' = pc
    ELSE pc' = "forFlowRates" /\ UNCHANGED <<flowRates, flowRate>>

\* case FindBestFlow: for flowRate := value; flowRate <= maxMaxFlowRate; flowRate += value
GenFindBestFlow ==
    /\ pc = "findBestFlow"
    /\ AppendWhile(turbine.maxMaxFlowRate, flowSetting.value)
    /\ UNCHANGED <<args, height, width, coilLayers, turbine, idx,
                   bestTurbine, bestFitness, err, calculatedRPM, evals>>

\* case FindBestUnderFlow: ... flowRate <= min(maxMaxFlowRate, value); flowRate += 100
GenFindBestUnderFlow ==
    /\ pc = "findBestUnderFlow"
    /\ AppendWhile(IMin(turbine.maxMaxFlowRate, flowSetting.value), 100)
    /\ UNCHANGED <<args, height, width, coilLayers, turbine, idx,
                   bestTurbine, bestFitness, err, calculatedRPM, evals>>

\* SetNominalFlowRate, FinalRPM, SetEnergyForRPM, Tick on the loop's turbine
EvaluatedAt(t) == Tick(SetEnergyForRPM(t, FinalRPM(t)))

Evaluated(t, rate) == EvaluatedAt(SetNominalFlowRate(t, rate))

\* the comparison with >= in place of >
BetterOrEqual(turbineFitness, best) == ~FLt(turbineFitness, best)

\* if turbineFitness > bestFitness
Better(turbineFitness, best) == FGt(turbineFitness, best)

\* the rest of one round of the loop over flowRates, for the evaluated turbine t
Score(t, turbineFitness) ==
    /\ turbine' = t
    /\ evals' = Append(evals, [height |-> height, width |-> width,
                               coilLayers |-> coilLayers,
                               flowRate |-> flowRates[idx],
                               turbine |-> t, fitness |-> turbineFitness])
    /\ IF Better(turbineFitness, bestFitness)
       THEN bestTurbine' = t /\ bestFitness' = turbineFitness
       ELSE UNCHANGED <<bestTurbine, bestFitness>>

ScoreTurbine(t) == Score(t, Fitness(fitnessFunction, t))

\* for _, flowRate := range flowRates
ForFlowRates ==
    /\ pc = "forFlowRates"
    /\ IF idx <= Len(flowRates)
       THEN /\ ScoreTurbine(Evaluated(turbine, flowRates[idx]))
            /\ calculatedRPM' = FinalRPM(SetNominalFlowRate(turbine, flowRates[idx]))
            /\ idx' = idx + 1
            /\ UNCHANGED <<coilLayers, pc>>
       ELSE /\ coilLayers' = coilLayers + 1
            /\ pc' = "forCoilLayers"
            /\ UNCHANGED <<turbine, evals, bestTurbine, bestFitness, idx, calculatedRPM>>
    /\ UNCHANGED <<args, height, width, flowRates, flowRate, err>>

Next ==
    \/ ForHeight
    \/ ForWidth
    \/ ForCoilLayers
    \/ Body
    \/ GenFindBestFlow
    \/ GenFindBestUnderFlow
    \/ ForFlowRates

Spec == Init /\ [][Next]_vars

\* the search is one sequential call: it takes its next step whenever it has
\* one.  NewTurbine and the evaluation of a candidate always return, so the
\* search does not stay at "body", nor at "forFlowRates", whose every round
\* moves idx towards the end of flowRates or leaves the loop.
FairSpec ==
    /\ Spec
    /\ WF_vars(ForHeight) /\ WF_vars(ForWidth) /\ WF_vars(ForCoilLayers)
    /\ WF_vars(GenFindBestFlow) /\ WF_vars(GenFindBestUnderFlow)
    /\ []<>(pc # "body") /\ []<>(pc # "forFlowRates")


\* ---------------------------------------------------------------------------
\* The model object driven directly: NewTurbine on any three int32 values,
\* then any sequence of SetNominalFlowRate, FinalRPM, SetEnergyForRPM and Tick.
\* pc is the last operation performed, idx the number performed, flowRate the
\* last argument of SetNominalFlowRate.

MaxOps == 3

Heights == {MinInt32, 3, 4, 5}
Widths == {MinInt32, -3, 4, 5, 6, 7, MaxInt32 - 1}
Layers == {MinInt32, 0, 1, 2, 3, MaxInt32}
FlowValues == {-5, 12345, 1000000}

\* the variables of findOptimalTurbine that a direct caller of the model lacks
searchOnly == <<args, flowRates, bestTurbine, bestFitness, evals>>

SearchIdle ==
    /\ fitnessFunction = "energyGenerated"
    /\ constraintsFunction = "always"
    /\ flowSetting = FlowSetting(UseMaxFlow, 0)
    /\ maxSize = Size(0, 0, 0)
    /\ flowRates = <<>>
    /\ bestTurbine = ZeroTurbine
    /\ bestFitness = NegInf
    /\ evals = <<>>

TInit ==
    /\ SearchIdle
    /\ coilType \in {"Iron", "Vibranium"}
    /\ height \in Heights
    /\ width \in Widths
    /\ coilLayers \in Layers
    /\ pc = "new"
    /\ turbine = ZeroTurbine
    /\ err = "nil"
    /\ flowRate = 0
    /\ idx = 0
    /\ calculatedRPM = FZero

T_NewWith(new) ==
    /\ turbine' = new.turbine
    /\ err' = new.err
    /\ pc' = IF new.err = "nil" THEN "NewTurbine" ELSE "failed"

T_New ==
    /\ pc = "new"
    /\ T_NewWith(NewTurbine(height, width, coilLayers, coilTypes(coilType)))
    /\ UNCHANGED <<searchOnly, height, width, coilLayers, flowRate, idx, calculatedRPM>>

Constructed == pc \in {"NewTurbine", "SetNominalFlowRate", "FinalRPM", "SetEnergyForRPM", "Tick"}

T_SetNominalFlowRate ==
    /\ Constructed /\ idx < MaxOps
    /\ \E v \in FlowValues :
          /\ turbine' = SetNominalFlowRate(turbine, v)
          /\ flowRate' = v
    /\ pc' = "SetNominalFlowRate"
    /\ idx' = idx + 1
    /\ UNCHANGED <<searchOnly, height, width, coilLayers, err, calculatedRPM>>

T_FinalRPM ==
    /\ Constructed /\ idx < MaxOps
    /\ calculatedRPM' = FinalRPM(turbine)
    /\ pc' = "FinalRPM"
    /\ idx' = idx + 1
    /\ UNCHANGED <<searchOnly, height, width, coilLayers, err, turbine, flowRate>>

T_SetEnergyForRPM ==
    /\ Constructed /\ idx < MaxOps
    /\ \E rpm \in {calculatedRPM, FromInt(700)} :
          turbine' = SetEnergyForRPM(turbine, rpm)
    /\ pc' = "SetEnergyForRPM"
    /\ idx' = idx + 1
    /\ UNCHANGED <<searchOnly, height, width, coilLayers, err, flowRate, calculatedRPM>>

T_Tick ==
    /\ Constructed /\ idx < MaxOps
    /\ turbine' = Tick(turbine)
    /\ pc' = "Tick"
    /\ idx' = idx + 1
    /\ UNCHANGED <<searchOnly, height, width, coilLayers, err, flowRate, calculatedRPM>>

TNext ==
    \/ T_New
    \/ T_SetNominalFlowRate
    \/ T_FinalRPM
    \/ T_SetEnergyForRPM
    \/ T_Tick

TurbineSpec == TInit /\ [][TNext]_vars

\* ---------------------------------------------------------------------------
\* One evaluation as the search's inner loop performs it, on every valid
\* geometry up to MaxGeometry and flow rates spread over [0, maxMaxFlowRate]:
\* SetNominalFlowRate, FinalRPM, SetEnergyForRPM(calculatedRPM), Tick.

FlowSteps == 8
MaxGeometry == Size(9, 6, 9)

\* the k-th of the flow rates spread over [0, maxMaxFlowRate]
SpreadFlow(t, k) == (k * t.maxMaxFlowRate) \div FlowSteps

PInit ==
    /\ SearchIdle
    /\ coilType \in {"Iron", "Vibranium"}
    /\ height \in minHeight .. MaxGeometry.y
    /\ width \in {w \in minWidth .. MaxGeometry.x : w % 2 = 1}
    /\ coilLayers \in 1 .. height - 3
    /\ pc = "new"
    /\ turbine = ZeroTurbine
    /\ err = "nil"
    /\ flowRate = 0
    /\ idx = 0
    /\ calculatedRPM = FZero

P_New ==
    /\ pc = "new"
    /\ T_NewWith(NewTurbine(height, width, coilLayers, coilTypes(coilType)))
    /\ UNCHANGED <<searchOnly, height, width, coilLayers, flowRate, idx, calculatedRPM>>

P_SetNominalFlowRate ==
    /\ pc = "NewTurbine"
    /\ \E k \in 0 .. FlowSteps :
          /\ turbine' = SetNominalFlowRate(turbine, SpreadFlow(turbine, k))
          /\ flowRate' = SpreadFlow(turbine, k)
    /\ pc' = "SetNominalFlowRate"
    /\ UNCHANGED <<searchOnly, height, width, coilLayers, err, idx, calculatedRPM>>

P_FinalRPM ==
    /\ pc = "SetNominalFlowRate"
    /\ calculatedRPM' = FinalRPM(turbine)
    /\ pc' = "FinalRPM"
    /\ UNCHANGED <<searchOnly, height, width, coilLayers, err, turbine, flowRate, idx>>

P_SetEnergyForRPM ==
    /\ pc = "FinalRPM"
    /\ turbine' = SetEnergyForRPM(turbine, calculatedRPM)
    /\ pc' = "SetEnergyForRPM"
    /\ UNCHANGED <<searchOnly, height, width, coilLayers, err, flowRate, idx, calculatedRPM>>

P_Tick ==
    /\ pc = "SetEnergyForRPM"
    /\ turbine' = Tick(turbine)
    /\ pc' = "Tick"
    /\ UNCHANGED <<searchOnly, height, width, coilLayers, err, flowRate, idx, calculatedRPM>>

PNext ==
    \/ P_New
    \/ P_SetNominalFlowRate
    \/ P_FinalRPM
    \/ P_SetEnergyForRPM
    \/ P_Tick

PipelineSpec == PInit /\ [][PNext]_vars


(***************************************************************************)
(* Properties of the model object                                          *)
(***************************************************************************)

\* coilLayers > height - 3 over the integers, without leaving the int32 range
TooManyFor(layers, h) == IF h >= MinInt32 + 3 THEN layers > h - 3 ELSE TRUE

ValidGeometry(h, w, layers) ==
    /\ w % 2 = 1
    /\ h >= 4
    /\ w >= 5
    /\ 1 <= layers
    /\ ~TooManyFor(layers, h)

\* the condition an error names, for the geometry h, w, layers
Violated(e, h, w, layers) ==
    CASE e = "Turbine width must be odd" -> w % 2 = 0
      [] e = "Turbine cannot hold that many coil layers" -> TooManyFor(layers, h)
      [] e = "Turbine cannot be this small" -> h < 4 \/ w < 5
      [] e = "Turbine needs at least one coil layer" -> layers < 1
      [] OTHER -> FALSE

\* C1: once NewTurbine(height, width, coilLayers, material) has returned, it
\* has succeeded exactly when width is odd, height >= 4, width >= 5 and
\* 1 <= coilLayers <= height - 3; otherwise its error names a condition the
\* input violates and the model returned with it is the untouched empty model.
C1_NewTurbineValidates ==
    pc # "new" =>
        /\ (err = "nil") <=> ValidGeometry(height, width, coilLayers)
        /\ err # "nil" => Violated(err, height, width, coilLayers)
        /\ err # "nil" => turbine = ZeroTurbine

\* an even width together with too many coil layers: the first check answers
C1_Witness ==
    /\ pc = "failed"
    /\ err = "Turbine width must be odd"
    /\ TooManyFor(coilLayers, height)
    /\ turbine = ZeroTurbine

Clamp(v, lo, hi) == IF v < lo THEN lo ELSE IF v > hi THEN hi ELSE v

\* C4: on a constructed model the nominal flow rate stays within
\* [0, maximum flow rate] through any sequence of SetNominalFlowRate, FinalRPM,
\* SetEnergyForRPM and Tick, the maximum stays
\* (interiorWidth * interiorDepth - 1) * 5000, and right after
\* SetNominalFlowRate(v) the nominal flow rate is clamp(v, 0, maximum).
C4_FlowRateClamped ==
    Constructed =>
        /\ 0 <= turbine.maxFlowRate
        /\ turbine.maxFlowRate <= turbine.maxMaxFlowRate
        /\ turbine.maxMaxFlowRate = ((width - 2) * (width - 2) - 1) * 5000
        /\ pc = "SetNominalFlowRate" =>
               turbine.maxFlowRate = Clamp(flowRate, 0, turbine.maxMaxFlowRate)

\* a negative flow rate set after other operations have run
C4_Witness ==
    /\ pc = "SetNominalFlowRate"
    /\ flowRate < 0
    /\ idx = MaxOps
    /\ turbine.maxFlowRate = 0
    /\ turbine.rotorEnergy # FZero

FEq(x, y) == FSub(x, y)[1] = 0

\* the interior layers of a height that carry blades
BladedLayers(h, layers) == (h - 2) - layers

\* the rotor totals NewTurbine derives when the shaft count is shafts
DerivedFrom(t, shafts, bladeLength, bladed) ==
    /\ FEq(t.rotorAxialMass,
           FromInt(100 * shafts + 100 * (bladed * 4 * sumRangeFromZero(bladeLength))))
    /\ FEq(t.rotorMass,
           FromInt(100 * (bladed * 4 * bladeLength) + 100 * shafts))
    /\ FEq(t.fluidTankCapacity,
           FromInt((t.size.x * t.size.y * t.size.z - (shafts + t.coilSize)) * 10000))

\* C10 as stated: after a successful NewTurbine the rotor shaft count is the
\* number of interior layers that carry blades, (height - 2) - coilLayers, and
\* rotor mass, rotor axial mass and fluid-tank capacity derive from it.
C10_ShaftsAreBladedLayers ==
    pc = "NewTurbine" =>
        /\ turbine.rotorShafts = BladedLayers(height, coilLayers)
        /\ DerivedFrom(turbine, BladedLayers(height, coilLayers), (width - 2) \div 2,
                       BladedLayers(height, coilLayers))

\* C10, amended: after a successful NewTurbine the rotor shaft count is the
\* number of interior layers, height - 2, the coil layers included, and rotor
\* mass, rotor axial mass and fluid-tank capacity derive from that count.
C10_ShaftsAreInteriorLayers ==
    pc = "NewTurbine" =>
        /\ turbine.rotorShafts = height - 2
        /\ DerivedFrom(turbine, height - 2, (width - 2) \div 2,
                       BladedLayers(height, coilLayers))

\* a model with two coil layers below one bladed layer
C10_Witness ==
    /\ pc = "NewTurbine"
    /\ coilLayers = 2
    /\ turbine.rotorShafts = 3

\* |x - y| <= |y| / 1000
WithinTolerance(x, y) ==
    ~FGt(FMul(FromInt(1000), FSub(x, y)), FMax(y, FNeg(y)))
    /\ ~FGt(FMul(FromInt(1000), FSub(y, x)), FMax(y, FNeg(y)))

\* C9: for a valid geometry and a nominal flow rate in [0, maximum], after
\* FinalRPM, SetEnergyForRPM(result) and one Tick, RPM() is within 1e-3
\* relative tolerance of result.
C9_FinalRPMIsFixedPoint ==
    pc = "Tick" => WithinTolerance(RPM(turbine), calculatedRPM)

\* a tick after the capacity-limited branch of FinalRPM
C9_Witness ==
    /\ pc = "Tick"
    /\ turbine.maxFlowRate > 0
    /\ FinalRPMBranch(turbine)[2] = 3


(***************************************************************************)
(* Properties of findOptimalTurbine                                        *)
(***************************************************************************)

Recognised == {UseMaxFlow, FindBestFlow, UseSetFlow, FindBestUnderFlow}

\* the maximum flow rate of a geometry of outer width w
MaxFlowOf(w) == ((w - 2) * (w - 2) - 1) * 5000

SameGeometry(a, b) ==
    a.height = b.height /\ a.width = b.width /\ a.coilLayers = b.coilLayers

\* a comes before b in the order height, then width, then coilLayers
GeometryBefore(a, b) ==
    \/ a.height < b.height
    \/ a.height = b.height /\ a.width < b.width
    \/ a.height = b.height /\ a.width = b.width /\ a.coilLayers < b.coilLayers

Multiples(s, M) == [i \in 1 .. (M \div s) |-> i * s]

Window(lo, hi) ==
    [i \in 1 .. (IF hi >= lo THEN (hi - lo) \div 100 + 1 ELSE 0) |-> lo + (i - 1) * 100]

\* the flow candidates of a geometry with maximum flow rate M, in generation order
ExpectedFlows(fs, M) ==
    CASE fs.variant = UseMaxFlow -> <<M>>
      [] fs.variant = FindBestFlow -> Multiples(fs.value, M)
      [] fs.variant = UseSetFlow -> <<fs.value>>
      [] fs.variant = FindBestUnderFlow -> Window(IMax(0, fs.value - 10000), IMin(M, fs.value))

\* the flow rates evaluated on one geometry, in the order of their evaluation
FlowsOn(es, h, w, layers) ==
    [i \in 1 .. Len(SelectSeq(es, LAMBDA e : e.height = h /\ e.width = w /\ e.coilLayers = layers))
        |-> SelectSeq(es, LAMBDA e : e.height = h /\ e.width = w /\ e.coilLayers = layers)[i].flowRate]

PassesOn(h, w, layers) ==
    Constraint(constraintsFunction, NewTurbine(h, w, layers, coilTypes(coilType)).turbine)

\* es holds exactly the candidates passing the constraint, in enumeration order
Enumerated(es) ==
    /\ \A i \in 1 .. Len(es) :
          /\ es[i].height \in 4 .. maxSize.y
          /\ es[i].width \in 5 .. maxSize.x /\ es[i].width % 2 = 1
          /\ es[i].coilLayers \in 1 .. es[i].height - 3
          /\ PassesOn(es[i].height, es[i].width, es[i].coilLayers)
    /\ \A i \in 1 .. Len(es) - 1 : ~GeometryBefore(es[i + 1], es[i])
    /\ \A h \in 4 .. maxSize.y : \A w \in 5 .. maxSize.x : \A layers \in 1 .. h - 3 :
          (w % 2 = 1 /\ PassesOn(h, w, layers)) =>
              FlowsOn(es, h, w, layers) = ExpectedFlows(flowSetting, MaxFlowOf(w))

\* the first position of es holding the maximum fitness
FirstMax(es) ==
    CHOOSE i \in 1 .. Len(es) :
        /\ \A j \in 1 .. Len(es) : ~FGt(es[j].fitness, es[i].fitness)
        /\ \A j \in 1 .. i - 1 : FGt(es[i].fitness, es[j].fitness)

SomeAboveNegInf(es) == \E i \in 1 .. Len(es) : FGt(es[i].fitness, NegInf)

\* C2 as stated: the search returns the evaluated model of the first
\* candidate, in the order height, width, coilLayers, flow generation, whose
\* fitness is the maximum over all candidates that pass the constraint.
C2_FirstMaxReturned ==
    (pc = "done" /\ evals # <<>>) =>
        /\ Enumerated(evals)
        /\ bestTurbine = evals[FirstMax(evals)].turbine

\* C2, amended: the search returns the evaluated model of the first candidate
\* of maximum fitness in the order height, width, coilLayers, flow generation,
\* provided some candidate's fitness exceeds -infinity; when none does, it
\* returns the zero-valued model.
C2_FirstMaxAboveNegInf ==
    pc = "done" =>
        /\ Enumerated(evals)
        /\ IF SomeAboveNegInf(evals)
           THEN bestTurbine = evals[FirstMax(evals)].turbine
           ELSE bestTurbine = ZeroTurbine

\* the last candidate ties with the maximum and differs from the model returned
C2_Witness ==
    /\ pc = "done"
    /\ Len(evals) >= 2
    /\ SomeAboveNegInf(evals)
    /\ FirstMax(evals) < Len(evals)
    /\ ~FGt(evals[FirstMax(evals)].fitness, evals[Len(evals)].fitness)
    /\ evals[Len(evals)].turbine # evals[FirstMax(evals)].turbine
    /\ bestTurbine = evals[FirstMax(evals)].turbine

\* the fields that SetNominalFlowRate, SetEnergyForRPM and Tick write
Unevaluated(t) ==
    /\ t.maxFlowRate = 0
    /\ t.rotorEnergy = FZero
    /\ t.energyGeneratedLastTick = FZero
    /\ t.rotorEfficiencyLastTick = FZero
    /\ t.inductorDragLastTick = FZero
    /\ t.frictionDragLastTick = FZero
    /\ t.aeroDragLastTick = FZero
    /\ t.coilEfficiencyLastTick = FZero

\* C3: with a constraint that is false for every model and a recognised flow
\* tag, no candidate is ever evaluated (no flow rate set, no tick, no fitness),
\* the search does not fail, and what it returns is the zero-valued model.
C3_NothingPasses ==
    (constraintsFunction = "never" /\ flowSetting.variant \in Recognised) =>
        /\ evals = <<>>
        /\ pc \in {"forHeight", "forWidth", "forCoilLayers", "body", "done"}
        /\ Unevaluated(turbine)
        /\ calculatedRPM = FZero
        /\ bestFitness = NegInf
        /\ bestTurbine = ZeroTurbine

\* the search has ended after constructing models that the constraint refused
C3_Witness ==
    /\ pc = "done"
    /\ constraintsFunction = "never"
    /\ flowSetting.variant \in Recognised
    /\ turbine # ZeroTurbine
    /\ bestTurbine = ZeroTurbine

\* C5 as stated: with a recognised flow tag the search eventually returns,
\* whatever the tag's parameter is.
C5_SearchReturns == (flowSetting.variant \in Recognised) => <>(pc = "done")

\* C6 as stated: with an unrecognised flow tag the search never returns.
C6_InvalidTagNeverReturns == (flowSetting.variant \notin Recognised) => pc # "done"

\* the candidate e evaluated on a model constructed for it alone
FreshEvaluation(e) ==
    Evaluated(NewTurbine(e.height, e.width, e.coilLayers, coilTypes(coilType)).turbine,
              e.flowRate)

\* C7: the model handed to fitness for a candidate is the one a fresh model
\* of its geometry gives after SetNominalFlowRate(flow), FinalRPM,
\* SetEnergyForRPM and one Tick, whatever was evaluated before it; and the
\* recorded best is one of the evaluated models, still as it was when recorded.
\* (The candidate just evaluated is the last of evals when the loop over
\* flowRates is about to start its next round.)
C7_CandidatesIndependent ==
    /\ (pc = "forFlowRates" /\ idx > 1) =>
          /\ evals[Len(evals)].turbine = FreshEvaluation(evals[Len(evals)])
          /\ evals[Len(evals)].fitness = Fitness(fitnessFunction, evals[Len(evals)].turbine)
    /\ IF FGt(bestFitness, NegInf)
       THEN /\ \E i \in 1 .. Len(evals) :
                  bestTurbine = evals[i].turbine /\ bestFitness = evals[i].fitness
            /\ bestFitness = Fitness(fitnessFunction, bestTurbine)
       ELSE bestTurbine = ZeroTurbine

\* a candidate evaluated on a model that an earlier candidate left spinning,
\* while the recorded best is that earlier candidate
C7_Witness ==
    /\ Len(evals) >= 2
    /\ SameGeometry(evals[Len(evals)], evals[Len(evals) - 1])
    /\ evals[Len(evals) - 1].turbine.rotorEnergy # FZero
    /\ evals[Len(evals)].flowRate # evals[Len(evals) - 1].flowRate
    /\ bestTurbine = evals[Len(evals) - 1].turbine
    /\ bestTurbine # turbine

\* C8: with FindBestFlow and a step s >= 1 the flow candidates of a geometry
\* with maximum flow rate M are s, 2s, ..., floor(M / s) * s in that order;
\* when s > M there is none, the geometry is never evaluated and never the
\* best, and the search goes on without failing.
C8_StepUntilMax ==
    (flowSetting.variant = FindBestFlow /\ flowSetting.value >= 1) =>
        /\ pc \notin {"panic", "outOfMemory"}
        /\ pc = "forFlowRates" => flowRates = Multiples(flowSetting.value, MaxFlowOf(width))
        /\ \A i \in 1 .. Len(evals) : flowSetting.value <= MaxFlowOf(evals[i].width)
        /\ bestTurbine # ZeroTurbine => flowSetting.value <= bestTurbine.maxMaxFlowRate

\* a step one above the geometry's maximum flow rate: no candidate
C8_Witness ==
    /\ pc = "forFlowRates"
    /\ flowSetting.variant = FindBestFlow
    /\ flowSetting.value = turbine.maxMaxFlowRate + 1
    /\ flowRates = <<>>

=============================================================================
